---- MODULE Spec2Model ----
(***************************************************************************)
(* Mood tracker (src/script.js): the in-memory entry store, its persisted  *)
(* blob, the selected-tags buffer, the pending file reads of an import and *)
(* what renderAll writes to the page (statistics, distribution, history).  *)
(*                                                                         *)
(* A JavaScript string is a sequence of one-character strings, so that     *)
(* trim, toLowerCase and includes are computed.  A Date is the integer     *)
(* number of clock ticks since the epoch; TicksPerDay ticks make a         *)
(* calendar day.  Every timestamp of the model is a valid Date: import     *)
(* files carry parseable timestamps.                                       *)
(***************************************************************************)
EXTENDS Integers, Sequences, FiniteSets, Bags, TLC

VARIABLES
    moodEntries,    \* let moodEntries: the in-memory store, newest first
    selectedTags,   \* let selectedTags: the tag buffer of the form
    currentFilter,  \* let currentFilter: "All" or a mood name
    searchValue,    \* the value of #search-input
    stored,         \* localStorage[STORAGE_KEY]: NoBlob or Blob(a JSON array)
    quota,          \* how many entries a blob may hold before setItem throws
    pending,        \* the bag of file reads importData started that have not
                    \* completed; they complete in any order
    now,            \* the last reading of the clock
    modal,          \* #app-modal: [hidden, title, message]
    toast,          \* the text of the last toast shown
    statsEl,        \* what updateStats last wrote
    distEl,         \* what updateMoodDistribution last wrote
    historyList,    \* what renderHistory last wrote
    last            \* history: the last handler that ran to its end, other than
                    \* importData's start of a read and closeModal, with its
                    \* argument and what became of its write to storage

vars == <<moodEntries, selectedTags, currentFilter, searchValue, stored, quota,
          pending, now, modal, toast, statsEl, distEl, historyList, last>>

----------------------------------------------------------------------------
(* Bounds of the model. *)

MaxEntries == 3
MaxNow == 3
MaxPending == 1
TicksPerDay == 2

(* Constants of the program. *)

MaxTags == 5

----------------------------------------------------------------------------
(* Strings. *)

UpperToLower ==
    [c \in {"A", "B", "G", "H", "N", "S", "T", "W"} |->
        CASE c = "A" -> "a" [] c = "B" -> "b" [] c = "G" -> "g"
          [] c = "H" -> "h" [] c = "N" -> "n" [] c = "S" -> "s"
          [] c = "T" -> "t" [] c = "W" -> "w"]

toLowerCase(s) ==
    [i \in 1..Len(s) |->
        IF s[i] \in DOMAIN UpperToLower THEN UpperToLower[s[i]] ELSE s[i]]

RECURSIVE trimStart(_)
trimStart(s) ==
    IF s # <<>> /\ Head(s) = " " THEN trimStart(Tail(s)) ELSE s

RECURSIVE trimEnd(_)
trimEnd(s) ==
    IF s # <<>> /\ s[Len(s)] = " " THEN trimEnd(SubSeq(s, 1, Len(s) - 1)) ELSE s

trim(s) == trimEnd(trimStart(s))

includes(s, t) ==
    \E i \in 1..(Len(s) + 1) :
        /\ i + Len(t) - 1 <= Len(s)
        /\ SubSeq(s, i, i + Len(t) - 1) = t

arrayIncludes(arr, x) == \E i \in 1..Len(arr) : arr[i] = x

----------------------------------------------------------------------------
(* Moods. *)

Amazing == <<"A", "m", "a", "z", "i", "n", "g">>
Good == <<"G", "o", "o", "d">>
Neutral == <<"N", "e", "u", "t", "r", "a", "l">>
Stressed == <<"S", "t", "r", "e", "s", "s", "e", "d">>
Terrible == <<"T", "e", "r", "r", "i", "b", "l", "e">>
\* A mood name the application does not know, as an import file may carry.
Happy == <<"H", "a", "p", "p", "y">>

All == <<"A", "l", "l">>

moodNames == <<Amazing, Good, Neutral, Stressed, Terrible>>

Moods == {moodNames[i] : i \in 1..Len(moodNames)}

getMoodEmoji(mood) ==
    CASE mood = Amazing -> "party"
      [] mood = Good -> "smile"
      [] mood = Neutral -> "neutral"
      [] mood = Stressed -> "worried"
      [] mood = Terrible -> "weary"
      [] OTHER -> "neutral"

moodRank(mood) ==
    CASE mood = Amazing -> 5
      [] mood = Good -> 4
      [] mood = Neutral -> 3
      [] mood = Stressed -> 2
      [] mood = Terrible -> 1
      [] OTHER -> 0

----------------------------------------------------------------------------
(* Dates and JSON. *)

\* date.setHours(0, 0, 0, 0): the first tick of the date's calendar day.
setHoursZero(t) == (t \div TicksPerDay) * TicksPerDay

\* date.setDate(date.getDate() + n)
addDays(t, n) == t + n * TicksPerDay

\* JSON.stringify of a Date is its ISO string; new Date of that string is the
\* same instant.
toISOString(t) == <<"iso", t>>
newDate(raw) == raw[2]

JSONstringify(entries) ==
    [i \in 1..Len(entries) |->
        [entries[i] EXCEPT !.timestamp = toISOString(@)]]

\* localStorage.getItem: null, or the text a setItem stored.
NoBlob == [exists |-> FALSE, text |-> <<>>]
Blob(text) == [exists |-> TRUE, text |-> text]

\* showModal sets the texts and shows the modal; closeModal only hides it.
showModal(title, message) == [hidden |-> FALSE, title |-> title, message |-> message]
closeModal(m) == [m EXCEPT !.hidden = TRUE]
NoModal == [hidden |-> TRUE, title |-> "", message |-> ""]
NoToast == "none"

----------------------------------------------------------------------------
(* sortEntries and Array.prototype.sort: a stable sort by a comparator. *)

currentSort == "newest"

compare(mode, a, b) ==
    CASE mode = "newest" -> b.timestamp - a.timestamp
      [] mode = "oldest" -> a.timestamp - b.timestamp
      [] mode = "mood-best" -> moodRank(b.mood) - moodRank(a.mood)
      [] mode = "mood-worst" -> moodRank(a.mood) - moodRank(b.mood)
      [] OTHER -> 0

RECURSIVE insertSorted(_, _, _)
insertSorted(s, x, mode) ==
    IF s # <<>> /\ compare(mode, s[Len(s)], x) > 0
    THEN Append(insertSorted(SubSeq(s, 1, Len(s) - 1), x, mode), s[Len(s)])
    ELSE Append(s, x)

RECURSIVE sort(_, _)
sort(entries, mode) ==
    IF entries = <<>> THEN <<>>
    ELSE insertSorted(sort(SubSeq(entries, 1, Len(entries) - 1), mode),
                      entries[Len(entries)], mode)

sortEntries(entries) == sort(entries, currentSort)

----------------------------------------------------------------------------
(* updateStats. *)

\* The for-of loop of the streak: i is the next entry, checkDate the day the
\* streak still needs.
RECURSIVE streakLoop(_, _, _, _)
streakLoop(sortedEntries, i, streak, checkDate) ==
    IF i > Len(sortedEntries) THEN streak
    ELSE LET entryDate == setHoursZero(sortedEntries[i].timestamp)
         IN  IF entryDate = checkDate
             THEN streakLoop(sortedEntries, i + 1, streak + 1, addDays(checkDate, -1))
             ELSE IF entryDate < checkDate
                  THEN streak
                  ELSE streakLoop(sortedEntries, i + 1, streak, checkDate)

\* The streak taken over the store in its own order, unsorted.
calcStreakStoreOrder(entries, t) ==
    streakLoop(entries, 1, 0, setHoursZero(t))

calcStreak(entries, t) ==
    LET today == setHoursZero(t)
    IN  streakLoop(sort(entries, "newest"), 1, 0, today)

\* moodCounts[mood]
moodCount(entries, mood) ==
    Cardinality({i \in 1..Len(entries) : entries[i].mood = mood})

\* Object.keys(moodCounts): the moods in the order of their first entry.
RECURSIVE moodKeys(_)
moodKeys(entries) ==
    IF entries = <<>> THEN <<>>
    ELSE LET front == SubSeq(entries, 1, Len(entries) - 1)
             keys == moodKeys(front)
             m == entries[Len(entries)].mood
         IN  IF arrayIncludes(keys, m) THEN keys ELSE Append(keys, m)

Dash == <<"-">>

\* (a, b) => moodCounts[a] > moodCounts[b] ? a : b; moodCounts['-'] is
\* undefined, and undefined > n is false.
pickMoodKeepsFirst(entries, a, b) ==
    IF a # Dash /\ moodCount(entries, a) >= moodCount(entries, b) THEN a ELSE b

pickMood(entries, a, b) ==
    IF a # Dash /\ moodCount(entries, a) > moodCount(entries, b) THEN a ELSE b

RECURSIVE reduceMood(_, _, _, _)
reduceMood(entries, keys, i, a) ==
    IF i > Len(keys) THEN a
    ELSE reduceMood(entries, keys, i + 1, pickMood(entries, a, keys[i]))

mostCommon(entries) == reduceMood(entries, moodKeys(entries), 1, Dash)

thisWeekEntries(entries, t) ==
    LET weekAgo == addDays(t, -7)
    IN  SelectSeq(entries, LAMBDA e : e.timestamp >= weekAgo)

updateStats(entries, t) ==
    IF Len(entries) = 0
    THEN [total |-> 0, streak |-> calcStreak(entries, t), mood |-> "-", week |-> 0]
    ELSE [total |-> Len(entries),
          streak |-> calcStreak(entries, t),
          mood |-> getMoodEmoji(mostCommon(entries)),
          week |-> Len(thisWeekEntries(entries, t))]

----------------------------------------------------------------------------
(* updateMoodDistribution: a percentage (count / total) * 100 is kept as the *)
(* exact fraction num / den.                                                 *)

percentage(count, total) == [num |-> count * 100, den |-> total]

updateMoodDistribution(entries) ==
    LET total == IF Len(entries) = 0 THEN 1 ELSE Len(entries)
    IN  [mood \in Moods |->
            LET count == Len(SelectSeq(entries, LAMBDA e : e.mood = mood))
            IN  [count |-> count, width |-> percentage(count, total)]]

----------------------------------------------------------------------------
(* renderHistory. *)

\* The search that looks at the note and the mood only.
matchesSearchNoTags(entry, searchTerm) ==
    \/ includes(toLowerCase(entry.note), searchTerm)
    \/ includes(toLowerCase(entry.mood), searchTerm)

matchesSearch(entry, searchTerm) ==
    \/ includes(toLowerCase(entry.note), searchTerm)
    \/ includes(toLowerCase(entry.mood), searchTerm)
    \/ \E i \in 1..Len(entry.tags) : includes(entry.tags[i], searchTerm)

renderHistory(entries, filter, search) ==
    LET byMood == IF filter = All THEN entries
                  ELSE SelectSeq(entries, LAMBDA e : e.mood = filter)
        searching == trim(search) # <<>>
        searchTerm == toLowerCase(trim(search))
        filteredEntries ==
            IF searching
            THEN SelectSeq(byMood, LAMBDA e : matchesSearch(e, searchTerm))
            ELSE byMood
        sorted == sortEntries(filteredEntries)
    IN  [items |-> sorted,
         noEntries |->
            IF Len(sorted) # 0 THEN "none"
            ELSE IF searching THEN "No entries match your search."
            ELSE IF filter = All THEN "No entries yet. Log your first mood above!"
            ELSE <<"No ", filter, " entries found.">>]

----------------------------------------------------------------------------
(* Inputs. *)

\* What the note field may hold when the form is submitted.
NoteValues == {<<" ", "B", "a", " ">>}

\* The moods the form is submitted with.
LogMoods == {Terrible}

\* input[name="mood"]:checked, or none.
NoSelection == "unchecked"

\* Import files, by what JSON.parse makes of their text.  An array holds
\* entries as an export wrote them; nothing checks their ids or moods.
rawEntry(id, mood, t) ==
    [id |-> id, mood |-> mood, note |-> <<>>, tags |-> <<>>,
     timestamp |-> toISOString(t)]

NotJSON == [json |-> "invalid"]
NotArray == [json |-> "object"]
ArrayOf(items) == [json |-> "array", items |-> items]

Files ==
    { NotJSON,
      NotArray,
      ArrayOf(<<rawEntry(1, Good, 1)>>),
      ArrayOf(<<rawEntry(2, Happy, 2), rawEntry(1, Good, 1)>>) }

NoFile == [json |-> "undefined"]

\* An id no entry has: logMood's ids are readings of the clock after the
\* start, and the import files' ids are 1 and 2.
AbsentId == 0

\* deleteEntry is called by the Delete button of a rendered entry, or with an
\* id whose entry is gone.
DeleteIds == {moodEntries[i].id : i \in 1..Len(moodEntries)} \cup {AbsentId}

LowQuota == 1
Quotas == {LowQuota, MaxEntries}

----------------------------------------------------------------------------
(* Handlers. *)

\* saveData writing the store as it was when the handler began.
saveDataBefore(entries, shown) ==
    IF Len(entries) <= quota
    THEN [stored |-> Blob(JSONstringify(moodEntries)), modal |-> shown, write |-> "ok"]
    ELSE [stored |-> stored,
          modal |-> showModal("Storage Error", "Could not save data."),
          write |-> "failed"]

\* saveData: setItem throws once the blob is over quota, and the error is
\* reported in the modal.
saveData(entries, shown) ==
    IF Len(entries) <= quota
    THEN [stored |-> Blob(JSONstringify(entries)), modal |-> shown, write |-> "ok"]
    ELSE [stored |-> stored,
          modal |-> showModal("Storage Error", "Could not save data."),
          write |-> "failed"]

\* loadData
loadData(blob) ==
    IF ~blob.exists THEN <<>>
    ELSE [i \in 1..Len(blob.text) |->
            [blob.text[i] EXCEPT !.timestamp = newDate(@)]]

renderAll(entries, t) ==
    /\ statsEl' = updateStats(entries, t)
    /\ distEl' = updateMoodDistribution(entries)
    /\ historyList' = renderHistory(entries, currentFilter, searchValue)

\* The clock is read in ticks.  logMood reads a later tick than the handler
\* before it (two submissions are at least one tick apart); the other
\* handlers read the tick the clock shows.
Reads(t) == t = now

substring(s, from, to) ==
    SubSeq(s, from + 1, IF to < Len(s) THEN to ELSE Len(s))

maxChars == 500

newEntry(mood, noteValue, t) ==
    [id |-> t,
     mood |-> mood,
     note |-> substring(trim(noteValue), 0, maxChars),
     tags |-> selectedTags,
     timestamp |-> t]

\* moodEntries.unshift(newEntry)
unshift(entries, entry) == <<entry>> \o entries

\* logMood with no mood selected.
LogMoodUnchecked ==
    /\ modal' = showModal("Error", "Please select a mood.")
    /\ last' = [op |-> "logMood", write |-> "none", arg |-> NoSelection]
    /\ UNCHANGED <<moodEntries, selectedTags, currentFilter, searchValue, stored,
                   quota, pending, now, toast, statsEl, distEl, historyList>>

\* logMood
LogMood(mood, noteValue, t) ==
    /\ Len(moodEntries) < MaxEntries
    /\ t = now + 1 /\ t <= MaxNow
    /\ LET entry == newEntry(mood, noteValue, t)
           entries == unshift(moodEntries, entry)
           saved == saveData(entries, modal)
       IN  /\ moodEntries' = entries
           /\ stored' = saved.stored
           /\ modal' = saved.modal
           /\ toast' = "mood logged"
           /\ selectedTags' = <<>>
           /\ now' = t
           /\ renderAll(entries, t)
           /\ last' = [op |-> "logMood", write |-> saved.write, arg |-> entry]
    /\ UNCHANGED <<currentFilter, searchValue, quota, pending>>

\* The removal by splice(findIndex(...), 1): an index of -1 takes the last
\* entry away.
withoutIdSplice(entries, id) ==
    IF \E i \in 1..Len(entries) : entries[i].id = id
    THEN SelectSeq(entries, LAMBDA e : e.id # id)
    ELSE SubSeq(entries, 1, Len(entries) - 1)

\* moodEntries.filter(entry => entry.id !== id)
withoutId(entries, id) == SelectSeq(entries, LAMBDA e : e.id # id)

\* deleteEntry, the confirm dialog answered.
DeleteEntry(id, confirmed, t) ==
    /\ Reads(t)
    /\ IF confirmed
       THEN LET entries == withoutId(moodEntries, id)
                saved == saveData(entries, modal)
            IN  /\ moodEntries' = entries
                /\ stored' = saved.stored
                /\ modal' = saved.modal
                /\ now' = t
                /\ renderAll(entries, t)
                /\ toast' = "Entry deleted successfully"
                /\ last' = [op |-> "deleteEntry", write |-> saved.write,
                            arg |-> [id |-> id,
                                     removed |-> Len(moodEntries) - Len(entries)]]
                /\ UNCHANGED <<selectedTags, currentFilter, searchValue, quota, pending>>
       ELSE UNCHANGED vars

\* clearAllData, the confirm dialog answered.
ClearAllData(confirmed, t) ==
    /\ Reads(t)
    /\ IF confirmed
       THEN LET saved == saveData(<<>>, modal)
            IN  /\ moodEntries' = <<>>
                /\ stored' = saved.stored
                /\ modal' = saved.modal
                /\ now' = t
                /\ renderAll(<<>>, t)
                /\ toast' = "All data cleared"
                /\ last' = [op |-> "clearAllData", write |-> saved.write,
                            arg |-> "all"]
                /\ UNCHANGED <<selectedTags, currentFilter, searchValue, quota, pending>>
       ELSE UNCHANGED vars

\* importData: starts the read of the chosen file and returns.
ImportData(file) ==
    /\ file # NoFile
    /\ BagCardinality(pending) < MaxPending
    /\ pending' = pending (+) SetToBag({file})
    /\ UNCHANGED <<moodEntries, selectedTags, currentFilter, searchValue, stored,
                   quota, now, modal, toast, statsEl, distEl, historyList, last>>

\* imported.forEach(entry => entry.timestamp = new Date(entry.timestamp))
imported(file) ==
    [i \in 1..Len(file.items) |->
        [file.items[i] EXCEPT !.timestamp = newDate(@)]]

\* moodEntries.concat(imported)
concatAfter(batch, entries) == entries \o batch

\* imported.concat(moodEntries)
concat(batch, entries) == batch \o entries

\* reader.onload prepending to the store it saw when importData ran.
onloadArrayAtStart(file) ==
    LET entries == concat(imported(file), file.atStart)
        saved == saveData(entries, modal)
    IN  [entries |-> entries, stored |-> saved.stored, modal |-> saved.modal,
         write |-> saved.write, rendered |-> TRUE,
         toast |-> "Data imported successfully"]

\* What reader.onload leaves: the array branch, and the two error branches.
onloadArray(file) ==
    LET entries == concat(imported(file), moodEntries)
        saved == saveData(entries, modal)
    IN  [entries |-> entries, stored |-> saved.stored, modal |-> saved.modal,
         write |-> saved.write, rendered |-> TRUE,
         toast |-> "Data imported successfully"]

onloadError(message) ==
    [entries |-> moodEntries, stored |-> stored,
     modal |-> showModal("Import Error", message),
     write |-> "none", rendered |-> FALSE, toast |-> toast]

\* reader.onload assigning what it parsed before it looks at it.
onloadAssignsFirst(file) ==
    CASE file.json = "invalid" -> onloadError("Could not parse JSON.")
      [] file.json = "object" ->
            [onloadError("Invalid data format.") EXCEPT !.entries = <<>>]
      [] file.json = "array" -> onloadArray(file)

onload(file) ==
    CASE file.json = "invalid" -> onloadError("Could not parse JSON.")
      [] file.json = "object" -> onloadError("Invalid data format.")
      [] file.json = "array" -> onloadArray(file)

\* reader.onload: a pending read of file has completed.
ReaderOnload(file, t) ==
    /\ BagIn(file, pending)
    /\ Reads(t)
    /\ LET done == onload(file)
       IN  /\ Len(done.entries) <= MaxEntries
           /\ pending' = pending (-) SetToBag({file})
           /\ moodEntries' = done.entries
           /\ stored' = done.stored
           /\ modal' = done.modal
           /\ toast' = done.toast
           /\ IF done.rendered
              THEN now' = t /\ renderAll(done.entries, t)
              ELSE UNCHANGED <<now, statsEl, distEl, historyList>>
           /\ last' = [op |-> "importData", write |-> done.write, arg |-> file]
    /\ UNCHANGED <<selectedTags, currentFilter, searchValue, quota>>

\* closeModal
CloseModal ==
    /\ ~modal.hidden
    /\ modal' = closeModal(modal)
    /\ UNCHANGED <<moodEntries, selectedTags, currentFilter, searchValue, stored,
                   quota, pending, now, toast, statsEl, distEl, historyList, last>>

\* initializeApp on a reload of the page: the script's state is built anew
\* from the blob, and reads in flight die with the old page.
InitializeApp(t) ==
    /\ Reads(t)
    /\ LET entries == loadData(stored)
       IN  /\ moodEntries' = entries
           /\ selectedTags' = <<>>
           /\ currentFilter' = All
           /\ searchValue' = <<>>
           /\ pending' = EmptyBag
           /\ modal' = NoModal
           /\ toast' = NoToast
           /\ now' = t
           /\ statsEl' = updateStats(entries, t)
           /\ distEl' = updateMoodDistribution(entries)
           /\ historyList' = renderHistory(entries, All, <<>>)
           /\ last' = [op |-> "initializeApp", write |-> "none", arg |-> "none"]
    /\ UNCHANGED <<stored, quota>>

\* addTag without the limit on the buffer's length.
AddTagNoLimit(tagName) ==
    /\ LET trimmedTag == toLowerCase(trim(tagName))
       IN  selectedTags' =
              IF trimmedTag # <<>> /\ ~arrayIncludes(selectedTags, trimmedTag)
              THEN Append(selectedTags, trimmedTag)
              ELSE selectedTags
    /\ last' = [op |-> "addTag", write |-> "none", arg |-> tagName]
    /\ UNCHANGED <<moodEntries, currentFilter, searchValue, stored, quota, pending,
                   now, modal, toast, statsEl, distEl, historyList>>

\* addTag
AddTag(tagName) ==
    /\ LET trimmedTag == toLowerCase(trim(tagName))
       IN  selectedTags' =
              IF /\ trimmedTag # <<>>
                 /\ ~arrayIncludes(selectedTags, trimmedTag)
                 /\ Len(selectedTags) < MaxTags
              THEN Append(selectedTags, trimmedTag)
              ELSE selectedTags
    /\ last' = [op |-> "addTag", write |-> "none", arg |-> tagName]
    /\ UNCHANGED <<moodEntries, currentFilter, searchValue, stored, quota, pending,
                   now, modal, toast, statsEl, distEl, historyList>>

\* removeTag
RemoveTag(tagName) ==
    /\ selectedTags' = SelectSeq(selectedTags, LAMBDA tag : tag # tagName)
    /\ last' = [op |-> "removeTag", write |-> "none", arg |-> tagName]
    /\ UNCHANGED <<moodEntries, currentFilter, searchValue, stored, quota, pending,
                   now, modal, toast, statsEl, distEl, historyList>>

\* filterMoods
FilterMoods(mood) ==
    /\ currentFilter' = mood
    /\ historyList' = renderHistory(moodEntries, mood, searchValue)
    /\ last' = [op |-> "filterMoods", write |-> "none", arg |-> mood]
    /\ UNCHANGED <<moodEntries, selectedTags, searchValue, stored, quota, pending,
                   now, modal, toast, statsEl, distEl>>

\* The input listener of #search-input.
SearchInput(value) ==
    /\ searchValue' = value
    /\ historyList' = renderHistory(moodEntries, currentFilter, value)
    /\ last' = [op |-> "searchInput", write |-> "none", arg |-> value]
    /\ UNCHANGED <<moodEntries, selectedTags, currentFilter, stored, quota, pending,
                   now, modal, toast, statsEl, distEl>>

----------------------------------------------------------------------------
(* The store: a fresh installation, then the handlers that change the store *)
(* or the blob, and the reload of the page.                                 *)

Init ==
    /\ moodEntries = <<>>
    /\ selectedTags = <<>>
    /\ currentFilter = All
    /\ searchValue = <<>>
    /\ stored = NoBlob
    /\ quota \in Quotas
    /\ pending = EmptyBag
    /\ now = 0
    /\ modal = NoModal
    /\ toast = NoToast
    /\ statsEl = updateStats(<<>>, 0)
    /\ distEl = updateMoodDistribution(<<>>)
    /\ historyList = renderHistory(<<>>, All, <<>>)
    /\ last = [op |-> "initializeApp", write |-> "none", arg |-> "none"]

Next ==
    \/ \E mood \in LogMoods, noteValue \in NoteValues, t \in 0..MaxNow :
          LogMood(mood, noteValue, t)
    \/ \E id \in DeleteIds, confirmed \in BOOLEAN, t \in 0..MaxNow :
          DeleteEntry(id, confirmed, t)
    \/ \E confirmed \in BOOLEAN, t \in 0..MaxNow : ClearAllData(confirmed, t)
    \/ \E file \in Files : ImportData(file)
    \/ \E file \in Files, t \in 0..MaxNow : ReaderOnload(file, t)
    \/ \E t \in 0..MaxNow : InitializeApp(t)

Spec == Init /\ [][Next]_vars

----------------------------------------------------------------------------
(* The import and the handlers that run while its read is pending.  Each    *)
(* read is marked with the store as it was when importData started it: a    *)
(* history mark, which reader.onload does not look at.                      *)

\* reader.readAsText(file), started now.
readOf(file) == file @@ [atStart |-> moodEntries]

\* The file chosen: an export of one entry.
ImportFiles == {ArrayOf(<<rawEntry(1, Good, 1)>>)}

\* A fresh installation whose storage holds every store of the model.
InitImport == Init /\ quota = MaxEntries

NextImport ==
    \/ \E mood \in LogMoods, noteValue \in NoteValues, t \in 0..MaxNow :
          LogMood(mood, noteValue, t)
    \/ \E id \in DeleteIds, confirmed \in BOOLEAN, t \in 0..MaxNow :
          DeleteEntry(id, confirmed, t)
    \/ \E confirmed \in BOOLEAN, t \in 0..MaxNow : ClearAllData(confirmed, t)
    \/ \E file \in ImportFiles : ImportData(readOf(file))
    \/ \E read \in BagToSet(pending), t \in 0..MaxNow : ReaderOnload(read, t)

SpecImport == InitImport /\ [][NextImport]_vars

----------------------------------------------------------------------------
(* The tag buffer of the form: tags are added and removed, and a submission *)
(* takes the buffer into the new entry.  The clock allows one submission,   *)
(* of a buffer of at most MaxLoggedTags tags.                               *)

MaxLoggedTags == 1

TagInputs ==
    { <<"a">>, <<"b">>, <<"g">>, <<"n">>, <<"s">>, <<"w">>,
      <<" ", "A", " ">>, <<" ">> }

TagNames == {toLowerCase(trim(tagName)) : tagName \in TagInputs} \ {<<>>}

InitTags ==
    /\ moodEntries = <<>>
    /\ selectedTags = <<>>
    /\ currentFilter = All
    /\ searchValue = <<>>
    /\ stored = NoBlob
    /\ quota = MaxEntries
    /\ pending = EmptyBag
    /\ now = MaxNow - 1
    /\ modal = NoModal
    /\ toast = NoToast
    /\ statsEl = updateStats(<<>>, MaxNow - 1)
    /\ distEl = updateMoodDistribution(<<>>)
    /\ historyList = renderHistory(<<>>, All, <<>>)
    /\ last = [op |-> "initializeApp", write |-> "none", arg |-> "none"]

NextTags ==
    \/ \E tagName \in TagInputs : AddTag(tagName)
    \/ \E tagName \in TagNames : RemoveTag(tagName)
    \/ Len(selectedTags) <= MaxLoggedTags /\ LogMood(Good, <<>>, now + 1)

SpecTags == InitTags /\ [][NextTags]_vars

----------------------------------------------------------------------------
(* updateStats and updateMoodDistribution over any store: the entries fall  *)
(* on the first or the last tick of four days, and the clock reads a tick   *)
(* of the last two, so that entries of the past, of today and of tomorrow   *)
(* all occur.                                                               *)

SeqsUpTo(S, n) == UNION {[1..k -> S] : k \in 0..n}

plainEntry(mood, t) ==
    [id |-> t, mood |-> mood, note |-> <<>>, tags |-> <<>>, timestamp |-> t]

StatDays == 0..3

TicksOf(days) ==
    UNION {{d * TicksPerDay, d * TicksPerDay + TicksPerDay - 1} : d \in days}

StatEntries ==
    {plainEntry(Good, t) : t \in TicksOf(StatDays)}
        \cup {plainEntry(mood, 0) : mood \in Moods}

InitStats ==
    /\ moodEntries \in SeqsUpTo(StatEntries, MaxEntries)
    /\ now \in TicksOf({2, 3})
    /\ selectedTags = <<>>
    /\ currentFilter = All
    /\ searchValue = <<>>
    /\ stored = NoBlob
    /\ quota = MaxEntries
    /\ pending = EmptyBag
    /\ modal = NoModal
    /\ toast = NoToast
    /\ statsEl = updateStats(<<>>, 0)
    /\ distEl = updateMoodDistribution(<<>>)
    /\ historyList = renderHistory(<<>>, All, <<>>)
    /\ last = [op |-> "none", write |-> "none", arg |-> "none"]

UpdateStats ==
    /\ statsEl' = updateStats(moodEntries, now)
    /\ last' = [op |-> "updateStats", write |-> "none", arg |-> "none"]
    /\ UNCHANGED <<moodEntries, selectedTags, currentFilter, searchValue, stored,
                   quota, pending, now, modal, toast, distEl, historyList>>

UpdateMoodDistribution ==
    /\ distEl' = updateMoodDistribution(moodEntries)
    /\ last' = [op |-> "updateMoodDistribution", write |-> "none", arg |-> "none"]
    /\ UNCHANGED <<moodEntries, selectedTags, currentFilter, searchValue, stored,
                   quota, pending, now, modal, toast, statsEl, historyList>>

NextStats == UpdateStats \/ UpdateMoodDistribution

SpecStats == InitStats /\ [][NextStats]_vars

----------------------------------------------------------------------------
(* The handlers that leave the store alone, over any store: the mood filter, *)
(* the search, a submission with no mood selected, and the modal's close.    *)

HistEntries ==
    { [id |-> 1, mood |-> Good, note |-> <<"B", "a">>, tags |-> <<>>,
       timestamp |-> 1],
      [id |-> 2, mood |-> Terrible, note |-> <<>>, tags |-> << <<"w">> >>,
       timestamp |-> 2],
      [id |-> 3, mood |-> Good, note |-> <<>>, tags |-> << <<"s">>, <<"b", "a">> >>,
       timestamp |-> 0],
      [id |-> 4, mood |-> Neutral, note |-> <<"w", " ", "G">>, tags |-> <<>>,
       timestamp |-> 1] }

SearchValues ==
    { <<>>, <<" ">>, <<"b", "A">>, <<" ", "G", "O", " ">>, <<"w">>, <<"z">> }

Filters == Moods \cup {All}

InitHistory ==
    /\ moodEntries \in SeqsUpTo(HistEntries, MaxEntries)
    /\ now = 2 * TicksPerDay
    /\ selectedTags = <<>>
    /\ currentFilter = All
    /\ searchValue = <<>>
    /\ stored = NoBlob
    /\ quota = MaxEntries
    /\ pending = EmptyBag
    /\ modal = NoModal
    /\ toast = NoToast
    /\ statsEl = updateStats(moodEntries, now)
    /\ distEl = updateMoodDistribution(moodEntries)
    /\ historyList = renderHistory(moodEntries, All, <<>>)
    /\ last = [op |-> "initializeApp", write |-> "none", arg |-> "none"]

NextHistory ==
    \/ \E mood \in Filters : FilterMoods(mood)
    \/ \E value \in SearchValues : SearchInput(value)
    \/ LogMoodUnchecked
    \/ CloseModal

SpecHistory == InitHistory /\ [][NextHistory]_vars

----------------------------------------------------------------------------
(* Properties. *)

DayOf(t) == t \div TicksPerDay

HasEntryOn(entries, day) ==
    \E i \in 1..Len(entries) : DayOf(entries[i].timestamp) = day

\* The days in a row, back from day, that each have an entry.
RECURSIVE DaysInARow(_, _)
DaysInARow(entries, day) ==
    IF HasEntryOn(entries, day) THEN 1 + DaysInARow(entries, day - 1) ELSE 0

(* C1: the streak updateStats writes is the number of consecutive calendar  *)
(* days, back from today, that each have at least one entry; it is 0 when   *)
(* today has none, and a day with several entries counts once.              *)
C1_StreakIsDaysInARow ==
    last.op = "updateStats" =>
        statsEl.streak = DaysInARow(moodEntries, DayOf(now))

\* Entries today, yesterday and three days ago, none the day before
\* yesterday: the streak is 2.
C1_Witness ==
    /\ last.op = "updateStats"
    /\ Len(moodEntries) = 3
    /\ HasEntryOn(moodEntries, DayOf(now))
    /\ HasEntryOn(moodEntries, DayOf(now) - 1)
    /\ ~HasEntryOn(moodEntries, DayOf(now) - 2)
    /\ HasEntryOn(moodEntries, DayOf(now) - 3)
    /\ statsEl.streak = 2

CountOfMood(entries, mood) ==
    Cardinality({i \in 1..Len(entries) : entries[i].mood = mood})

\* The place of a mood among the keys of moodCounts: that of its first entry.
FirstIndexOf(entries, mood) ==
    CHOOSE i \in 1..Len(entries) :
        /\ entries[i].mood = mood
        /\ \A j \in 1..(i - 1) : entries[j].mood # mood

MoodsOf(entries) == {entries[i].mood : i \in 1..Len(entries)}

MaxMoods(entries) ==
    {m \in MoodsOf(entries) :
        \A k \in MoodsOf(entries) : CountOfMood(entries, k) <= CountOfMood(entries, m)}

FirstMaxMood(entries) ==
    CHOOSE m \in MaxMoods(entries) :
        \A k \in MaxMoods(entries) : FirstIndexOf(entries, m) <= FirstIndexOf(entries, k)

LastMaxMood(entries) ==
    CHOOSE m \in MaxMoods(entries) :
        \A k \in MaxMoods(entries) : FirstIndexOf(entries, k) <= FirstIndexOf(entries, m)

(* C2, as claimed: the mood updateStats reports has the maximal count, the  *)
(* first key with that count when several share it; '-' for an empty store. *)
C2_FirstKeyWinsTies ==
    last.op = "updateStats" =>
        statsEl.mood = IF moodEntries = <<>> THEN "-"
                       ELSE getMoodEmoji(FirstMaxMood(moodEntries))

(* C2, amended: the mood updateStats reports has the maximal count, the     *)
(* last key with that count when several share it (the keys in the order of *)
(* each mood's first entry in the store); '-' for an empty store.           *)
C2_LastKeyWinsTies ==
    last.op = "updateStats" =>
        statsEl.mood = IF moodEntries = <<>> THEN "-"
                       ELSE getMoodEmoji(LastMaxMood(moodEntries))

\* Two moods share the maximal count, and the later key's emoji is shown.
C2_Witness ==
    /\ last.op = "updateStats"
    /\ Len(moodEntries) = 3
    /\ Cardinality(MaxMoods(moodEntries)) >= 2
    /\ FirstMaxMood(moodEntries) # LastMaxMood(moodEntries)
    /\ statsEl.mood = getMoodEmoji(LastMaxMood(moodEntries))

Distinct(seq) ==
    \A i, j \in 1..Len(seq) : i # j => seq[i] # seq[j]

(* C3, as claimed: no two entries of the store have the same id. *)
C3_IdsAreUnique ==
    \A i, j \in 1..Len(moodEntries) :
        i # j => moodEntries[i].id # moodEntries[j].id

PercentSum ==
    distEl[Amazing].width.num + distEl[Good].width.num + distEl[Neutral].width.num
        + distEl[Stressed].width.num + distEl[Terrible].width.num

(* C4, as claimed: the five percentages of updateMoodDistribution, each     *)
(* width.num / width.den, sum to 100 when the store holds an entry, and are *)
(* all 0 when it is empty.                                                  *)
C4_PercentagesSumTo100 ==
    IF Len(moodEntries) > 0
    THEN /\ \A mood \in Moods : distEl[mood].width.den = Len(moodEntries)
         /\ PercentSum = 100 * Len(moodEntries)
    ELSE \A mood \in Moods : distEl[mood].width.num = 0

\* A step of reader.onload: last names it, and a pending read is gone.
OnloadStep ==
    /\ last'.op = "importData"
    /\ BagCardinality(pending') = BagCardinality(pending) - 1

(* C5: when the text of an import is not JSON, or is JSON but no array, the *)
(* store and the blob stay what they were and the modal shows an import     *)
(* error.                                                                   *)
C5_BadImportChangesNothing ==
    [][ (OnloadStep /\ last'.arg.json \in {"invalid", "object"}) =>
            /\ moodEntries' = moodEntries
            /\ stored' = stored
            /\ ~modal'.hidden
            /\ modal'.title = "Import Error" ]_vars

\* A file that is JSON but no array was imported into a store that holds
\* entries and has a blob.
C5_Witness ==
    /\ last.op = "importData"
    /\ last.arg.json = "object"
    /\ Len(moodEntries) >= 2
    /\ stored.exists
    /\ ~modal.hidden
    /\ modal.message = "Invalid data format."

(* C6: a successful import of the array B into the store S leaves B (its    *)
(* timestamps made Dates) followed by S, each in its order.                 *)
C6_ImportPrepends ==
    [][ (OnloadStep /\ last'.arg.json = "array") =>
            LET B == last'.arg.items
                S == moodEntries
            IN  /\ Len(moodEntries') = Len(B) + Len(S)
                /\ \A i \in 1..Len(B) :
                      moodEntries'[i] = [B[i] EXCEPT !.timestamp = @[2]]
                /\ \A j \in 1..Len(S) : moodEntries'[Len(B) + j] = S[j] ]_vars

\* Two entries were imported ahead of one that was logged.
C6_Witness ==
    /\ last.op = "importData"
    /\ last.arg.json = "array"
    /\ Len(last.arg.items) = 2
    /\ Len(moodEntries) = 3
    /\ moodEntries[1].mood = Happy
    /\ moodEntries[3].mood = Terrible
    /\ moodEntries[3].note = <<"B", "a">>

Mutations == {"logMood", "deleteEntry", "clearAllData", "importData"}

\* The store holds what the last handler did to it.
HoldsMutation ==
    CASE last.op = "logMood" -> moodEntries # <<>> /\ Head(moodEntries) = last.arg
      [] last.op = "deleteEntry" ->
            \A i \in 1..Len(moodEntries) : moodEntries[i].id # last.arg.id
      [] last.op = "clearAllData" -> moodEntries = <<>>
      [] last.op = "importData" ->
            /\ Len(moodEntries) >= Len(last.arg.items)
            /\ SubSeq(moodEntries, 1, Len(last.arg.items)) = imported(last.arg)

(* C7: after a mutating handler whose write succeeded, the blob is the      *)
(* store (a reload would load exactly it); after one whose write failed,    *)
(* the store holds the mutation, the page shows the store, and the storage  *)
(* error was reported.                                                      *)
C7_BlobFollowsStore ==
    /\ (last.op \in Mutations /\ last.write = "ok") =>
            /\ stored.exists
            /\ stored.text = JSONstringify(moodEntries)
            /\ loadData(stored) = moodEntries
    /\ (last.op \in Mutations /\ last.write = "failed") =>
            /\ HoldsMutation
            /\ statsEl.total = Len(moodEntries)
            /\ historyList = renderHistory(moodEntries, currentFilter, searchValue)
            /\ modal.title = "Storage Error"

\* A deletion whose write failed: the blob still holds the entry.
C7_Witness ==
    /\ last.op = "deleteEntry"
    /\ last.arg.removed = 1
    /\ last.write = "failed"
    /\ stored.exists
    /\ Len(stored.text) < Len(moodEntries)
    /\ ~modal.hidden

CountIn(seq, e) == Cardinality({i \in 1..Len(seq) : seq[i] = e})

SearchTerm == toLowerCase(trim(searchValue))

Shown(e) ==
    /\ currentFilter = All \/ e.mood = currentFilter
    /\ \/ SearchTerm = <<>>
       \/ includes(toLowerCase(e.note), SearchTerm)
       \/ includes(toLowerCase(e.mood), SearchTerm)
       \/ \E i \in 1..Len(e.tags) : includes(e.tags[i], SearchTerm)

IsTag(tag) == tag # <<>> /\ trim(tag) = tag /\ toLowerCase(tag) = tag

C9_BufferOk ==
    /\ Len(selectedTags) <= 5
    /\ Distinct(selectedTags)
    /\ \A i \in 1..Len(selectedTags) : IsTag(selectedTags[i])

(* C9: the tag buffer always holds at most 5 tags, distinct, each non-empty, *)
(* trimmed and lower-case; an addTag on a full buffer, or of a tag the       *)
(* buffer holds, leaves the buffer as it was.                                *)
C9_TagBuffer ==
    /\ []C9_BufferOk
    /\ [][ last'.op = "addTag" =>
              LET tag == toLowerCase(trim(last'.arg))
              IN  (Len(selectedTags) = 5 \/ arrayIncludes(selectedTags, tag))
                      => selectedTags' = selectedTags ]_vars

\* Five tags are held and a sixth, different from all of them, was added.
C9_Witness ==
    /\ last.op = "addTag"
    /\ Len(selectedTags) = 5
    /\ toLowerCase(trim(last.arg)) # <<>>
    /\ ~arrayIncludes(selectedTags, toLowerCase(trim(last.arg)))

(* C10: a confirmed deleteEntry(id) leaves the store without the entries of *)
(* that id, the others in their order; with no such entry the store is as   *)
(* it was, and the handler ends as ever.                                    *)
C10_DeleteRemovesById ==
    [][ last'.op = "deleteEntry" =>
            LET id == last'.arg.id
            IN  /\ moodEntries' = SelectSeq(moodEntries, LAMBDA e : e.id # id)
                /\ (\A i \in 1..Len(moodEntries) : moodEntries[i].id # id)
                      => moodEntries' = moodEntries
                /\ toast' = "Entry deleted successfully" ]_vars

\* An id no entry has was deleted from a store of two or more.
C10_Witness ==
    /\ last.op = "deleteEntry"
    /\ last.arg.id = AbsentId
    /\ last.arg.removed = 0
    /\ Len(moodEntries) >= 2

EntriesOf(seq) == {seq[i] : i \in 1..Len(seq)}

\* A step of importData: a read is pending that was not.
ReadStarts == BagCardinality(pending') = BagCardinality(pending) + 1

(* C11: the step of importData that starts a read leaves the store, the     *)
(* blob and the page as they were; and when the read of an array B          *)
(* completes, the store is B followed by the store as it is at completion,  *)
(* whatever it was when the read started: an entry logged since the start   *)
(* is kept, and an entry deleted or cleared since the start is not back     *)
(* (unless B holds it).                                                     *)
C11_PendingImportKeepsHandlers ==
    [][ /\ ReadStarts =>
              /\ moodEntries' = moodEntries
              /\ stored' = stored
              /\ historyList' = historyList
              /\ statsEl' = statsEl
        /\ (OnloadStep /\ last'.arg.json = "array") =>
              LET B == imported(last'.arg)
                  atStart == last'.arg.atStart
              IN  /\ moodEntries' = B \o moodEntries
                  /\ \A e \in EntriesOf(moodEntries) \ EntriesOf(atStart) :
                        e \in EntriesOf(moodEntries')
                  /\ \A e \in EntriesOf(atStart) \ EntriesOf(moodEntries) :
                        e \in EntriesOf(moodEntries') => e \in EntriesOf(B) ]_vars

\* A read was started on a store of one entry; that entry was deleted and
\* another logged while the read was pending; the read has completed.
C11_Witness ==
    /\ last.op = "importData"
    /\ last.arg.json = "array"
    /\ Len(last.arg.atStart) = 1
    /\ last.arg.atStart[1] \notin EntriesOf(moodEntries)
    /\ Len(moodEntries) = Len(last.arg.items) + 1
    /\ moodEntries[Len(moodEntries)].mood = Terrible
    /\ moodEntries[Len(moodEntries)] \notin EntriesOf(last.arg.atStart)

====
